---------------------------- MODULE Spec2Model ----------------------------
(***************************************************************************)
(* State-machine model of subagent_template.py: main, run_subagent,        *)
(* _build_env, _kill_process_group and the read_stdout drain thread,       *)
(* together with the child process (and one descendant of it) they         *)
(* supervise.                                                              *)
(*                                                                         *)
(* Python values are modelled as follows.  A text is a sequence of atoms   *)
(* (a line read from a pipe, or the value of a JSON field), so the raw     *)
(* stdout text is the sequence of the logged lines and "" is << >>.        *)
(* None is the string None.  A line of the child's stdout is one of the    *)
(* tokens of LineKinds; json.loads and dict.get are tables over them.      *)
(*                                                                         *)
(* Spec follows a whole run of main.  DrainSpec follows the drain thread   *)
(* of a streaming run on streams that hold assistant events (StreamKinds). *)
(***************************************************************************)
EXTENDS Integers, Sequences, FiniteSets, TLC

VARIABLES
    pc,                 \* position of the main thread in main / run_subagent
    task_given,         \* argv carries --task
    stream_progress,    \* argv carries --stream
    environ,            \* os.environ: <<ANTHROPIC_AUTH_TOKEN, ZAI_API_KEY>>
    env,                \* env["ANTHROPIC_AUTH_TOKEN"] handed to the child
    spawned,            \* subprocess.Popen has created the child
    stdin_open,         \* proc.stdin is still open
    child_alive,        \* the immediate child is running
    child_blocked,      \* the child is blocked writing to the full stderr pipe
    exit_status,        \* the status the child ended with (None while alive)
    returncode,         \* proc.returncode (None until poll()/wait() reaps)
    desc,               \* the descendant: "none", "alive" or "dead"
    desc_out,           \* the descendant holds the stdout pipe open
    desc_err,           \* the descendant holds the stderr pipe open
    whole_stdout,       \* every stdout line the child has written
    out_pipe,           \* stdout pipe: lines written and not yet read
    err_pipe,           \* stderr pipe: chunks written and not yet read
    err_written,        \* number of stderr chunks the child has written
    expired,            \* (time.time() - start) > timeout
    timed_out,          \* the poll loop took its timeout branch
    sig_log,            \* signals sent by _kill_process_group, in order
    term_sent,          \* SIGTERM was delivered to the process group
    grace_expired,      \* proc.wait(timeout=grace_seconds) raised TimeoutExpired
    raised,             \* the exception raised in run_subagent (None if none)
    reader,             \* read_stdout: "idle", "running", "done" or "crashed"
    files_open,         \* stdout_f / stderr_f / stream_f are open
    stdout_log,         \* contents of run_<id>.stdout.txt
    stream_log,         \* contents of run_<id>.stream.jsonl
    stderr_log,         \* contents of run_<id>.stderr.txt
    final_result_event, \* the nonlocal final_result_event
    reader_line,        \* the line read_stdout has logged and not yet parsed
    last_tool_name_printed, \* the nonlocal last_tool_name_printed
    notified,           \* tool names written to sys.stdout, in order
    live_seen,          \* final_result_event as "Parse result" read it
    result,             \* the result dict: success, result, session_id, error
    summary_printed,    \* the final "[subagent] ..." summary line was printed
    json_printed,       \* main printed the JSON line for the orchestrator
    exit_code           \* exit code of the wrapper process (None while running)

vars == << pc, task_given, stream_progress, environ, env, spawned, stdin_open,
           child_alive, child_blocked, exit_status, returncode, desc,
           desc_out, desc_err,
           whole_stdout, out_pipe, err_pipe, err_written, expired,
           timed_out, sig_log, term_sent, grace_expired, raised, reader,
           files_open, stdout_log,
           stream_log, stderr_log, final_result_event, reader_line,
           last_tool_name_printed, notified, live_seen, result,
           summary_printed, json_printed, exit_code >>

procVars == << child_alive, child_blocked, exit_status, desc, desc_out,
               desc_err,
               whole_stdout, out_pipe, err_pipe, err_written >>
readerVars == << reader, stdout_log, stream_log, final_result_event,
                 reader_line, last_tool_name_printed, notified >>
outVars == << summary_printed, json_printed, exit_code >>
cfgVars == << task_given, stream_progress, environ >>

-----------------------------------------------------------------------------
(* Bounds of the model *)

MaxLines == 2       \* stdout lines a child writes
MaxErr == 1         \* stderr chunks a child writes
DrainMaxLines == 3  \* stdout lines a child writes while the drain is followed

\* Pipe capacities: the stdout pipe buffers less than a child may write, so
\* that a child can block on it; the stderr pipe buffers all of it
PipeCap == MaxLines - 1
ErrCap == MaxErr

-----------------------------------------------------------------------------
(* Values *)

None == "None"
\* live_seen before "Parse result" has read the marker
Unread == "<unread>"
Unset == "<unset>"
EnvVals == {Unset, "", "key"}
\* The ambient environments a run is started in
Environs == { << Unset, Unset >>, << "", Unset >>, << Unset, "" >>,
              << "", "key" >> }

\* Exit statuses and return codes are the strings "0", "1", "2", "-15", "-9",
\* so that None compares with them
SIGTERM == "SIGTERM"
SIGKILL == "SIGKILL"
KilledByTerm == "-15"
KilledByKill == "-9"

\* One line of the child's stdout:
\*   R1, R2  {"type":"result","result":"r1","session_id":"s1"} (resp. r2, s2)
\*   SYS     {"type":"system"}          an object with another tag
\*   ARR     [1]                        a JSON value that is not an object
\*   TXT     text that is not JSON (a partial line included)
\*   BLANK   an empty line
LineKinds == {"R1", "R2", "SYS", "ARR", "TXT", "BLANK"}
\* Lines of a stream the drain is followed on, with assistant events:
\*   TA, TB  {"type":"assistant","message":{"content":[{"type":"tool_use",
\*           "name":"Read"}]}} (resp. "Edit")
\*   T0      the same with a tool_use block that has no "name"
\*   TAB     an assistant event with two tool_use blocks, "Read" then "Edit"
\*   AST     an assistant event with one block of type "text"
\*   AMSG    {"type":"assistant","message":"text"}: message is not an object
AssistantKinds == {"TA", "TB", "T0", "TAB", "AST", "AMSG"}
StreamKinds == AssistantKinds \cup {"SYS", "TXT"}
\* One chunk of the child's stderr: text, or bytes that are not UTF-8
ErrKinds == {"E", "BAD"}
\* Exit codes a child chooses itself
ExitCodes == {"0", "1"}

TimeoutError == "Timeout after <timeout>s"
CliNotFound == "Claude CLI not found. Install: ..."
ExitCodeError == "Exit code: <returncode>"
StderrError == "<stderr text>"
ExceptionError == "<str(e)>"
NoResultPlaceholder == << "(no result event; see <stream_log>)" >>

-----------------------------------------------------------------------------
(* Pure helpers: Python truthiness, json.loads and dict.get over the tokens *)

\* bool(v) of an environment value: None (unset) and "" are falsy
Truthy(v) == v \notin {Unset, ""}

\* a or b
PyOr(a, b) == IF Truthy(a) THEN a ELSE b

\* token = env.get("ANTHROPIC_AUTH_TOKEN") or env.get("ZAI_API_KEY")
Token(e) == PyOr(e[1], e[2])

\* line.strip() is empty
IsBlank(line) == line = "BLANK"

\* json.loads(line.strip()) does not raise JSONDecodeError
JsonValid(line) == line \in {"R1", "R2", "SYS", "ARR"} \cup AssistantKinds

\* the decoded value is a dict, so that .get is defined on it
IsDict(line) == line \in {"R1", "R2", "SYS"} \cup AssistantKinds

\* event.get("type", "")
GetType(line) ==
    CASE line \in {"R1", "R2"} -> "result"
      [] line = "SYS" -> "system"
      [] line \in AssistantKinds -> "assistant"
      [] OTHER -> ""

\* event.get("result", "") or ""
GetResult(line) ==
    CASE line = "R1" -> << "r1" >>
      [] line = "R2" -> << "r2" >>
      [] OTHER -> << >>

\* event.get("session_id")
GetSession(line) ==
    CASE line = "R1" -> "s1"
      [] line = "R2" -> "s2"
      [] OTHER -> None

\* event.get("message", {}).get("content", []) raises AttributeError when
\* "message" is not a dict
ContentRaises(line) == line = "AMSG"

\* block.get("name") or "tool", for the blocks of the content whose type is
\* "tool_use", in order
ToolNames(line) ==
    CASE line = "TA" -> << "Read" >>
      [] line = "TB" -> << "Edit" >>
      [] line = "T0" -> << "tool" >>
      [] line = "TAB" -> << "Read", "Edit" >>
      [] OTHER -> << >>

\* Mutant of ShouldNotify: every tool_use block is announced
ShouldNotifyAlways(tool_name, last) == TRUE

\* if tool_name != last_tool_name_printed
ShouldNotify(tool_name, last) == tool_name # last

\* "for block in content": the marker and the announcements after the blocks
\* named names, as the pair << last_tool_name_printed, notified >>
RECURSIVE NotifyBlocks(_, _, _)
NotifyBlocks(names, last, out) ==
    IF names = << >> THEN << last, out >>
    ELSE IF ShouldNotify(Head(names), last)
         THEN NotifyBlocks(Tail(names), Head(names),
                           Append(out, Head(names)))
         ELSE NotifyBlocks(Tail(names), last, out)

\* the lines of a text that are not whitespace only
NonBlank(text) == SelectSeq(text, LAMBDA l : ~IsBlank(l))

\* json.loads(stdout_text) succeeds: the text is exactly one JSON value
\* surrounded by whitespace
WholeJsonValid(text) ==
    /\ Len(NonBlank(text)) = 1
    /\ JsonValid(NonBlank(text)[1])

\* the value json.loads(stdout_text) returns
WholeJson(text) == NonBlank(text)[1]

\* The fallback re-scan of the stream log: the last line that decodes to a
\* dict whose type is "result"; lines that fail to decode, or on which
\* ev.get raises, are skipped by the bare except.
IsResultLine(line) ==
    JsonValid(line) /\ IsDict(line) /\ GetType(line) = "result"

LastResult(log) ==
    LET idx == { i \in 1..Len(log) : IsResultLine(log[i]) }
    IN  IF idx = {} THEN None
        ELSE log[CHOOSE i \in idx : \A j \in idx : j <= i]

InitResult == [ success |-> FALSE, result |-> << >>, session_id |-> None,
                error |-> None ]

\* end-of-file on the child's stdout / stderr pipe: every process that holds
\* the write end has exited
StdoutClosed == ~child_alive /\ ~(desc = "alive" /\ desc_out)
StderrClosed == ~child_alive /\ ~(desc = "alive" /\ desc_err)

-----------------------------------------------------------------------------
Init ==
    /\ pc = "main"
    /\ task_given \in BOOLEAN
    /\ stream_progress \in BOOLEAN
    /\ environ \in Environs
    /\ env = Unset
    /\ spawned = FALSE
    /\ stdin_open = FALSE
    /\ child_alive = FALSE
    /\ child_blocked = FALSE
    /\ exit_status = None
    /\ returncode = None
    /\ desc = "none"
    /\ desc_out = FALSE
    /\ desc_err = FALSE
    /\ whole_stdout = << >>
    /\ out_pipe = << >>
    /\ err_pipe = << >>
    /\ err_written = 0
    /\ expired = FALSE
    /\ timed_out = FALSE
    /\ sig_log = << >>
    /\ term_sent = FALSE
    /\ grace_expired = FALSE
    /\ raised = None
    /\ reader = "idle"
    /\ files_open = FALSE
    /\ stdout_log = << >>
    /\ stream_log = << >>
    /\ stderr_log = << >>
    /\ final_result_event = None
    /\ reader_line = None
    /\ last_tool_name_printed = None
    /\ notified = << >>
    /\ live_seen = Unread
    /\ result = InitResult
    /\ summary_printed = FALSE
    /\ json_printed = FALSE
    /\ exit_code = None

-----------------------------------------------------------------------------
(* main and the straight-line part of run_subagent *)

\* parser.parse_args(): --task is required; argparse exits with status 2
MainParseArgs ==
    /\ pc = "main"
    /\ IF task_given
       THEN /\ pc' = "build_env"
            /\ exit_code' = exit_code
       ELSE /\ pc' = "exited"
            /\ exit_code' = "2"
    /\ UNCHANGED << cfgVars, live_seen, env, raised, spawned, stdin_open,
                    procVars, returncode, expired, timed_out, sig_log,
                    term_sent, grace_expired, readerVars, files_open,
                    stderr_log, result, summary_printed,
                    json_printed >>

\* Mutant of MissingToken: only a variable set to "" counts as missing
MissingTokenEmptyOnly(e) == Token(e) = ""

\* _build_env raises ValueError when no token is found
MissingToken(e) == ~Truthy(Token(e))

\* env = _build_env(), the first statement of run_subagent, outside its try
BuildEnv ==
    /\ pc = "build_env"
    /\ IF MissingToken(environ)
       THEN /\ pc' = "raised"
            /\ env' = env
            /\ raised' = "ValueError"
       ELSE /\ pc' = "popen"
            /\ env' = Token(environ)
            /\ raised' = raised
    /\ UNCHANGED << cfgVars, live_seen, spawned, stdin_open, procVars,
                    returncode, expired, timed_out, sig_log,
                    term_sent, grace_expired, readerVars, files_open,
                    stderr_log, result, outVars >>

\* The ValueError leaves run_subagent and main: traceback, exit status 1
MainTraceback ==
    /\ pc = "raised"
    /\ pc' = "exited"
    /\ exit_code' = "1"
    /\ UNCHANGED << cfgVars, live_seen, env, raised, spawned, stdin_open,
                    procVars, returncode, expired, timed_out, sig_log,
                    term_sent, grace_expired, readerVars, files_open,
                    stderr_log, result, summary_printed,
                    json_printed >>

\* subprocess.Popen(...): starts the child, or raises
Popen(outcome) ==
    /\ pc = "popen"
    /\ CASE outcome = "ok" ->
              /\ spawned' = TRUE
              /\ stdin_open' = TRUE
              /\ child_alive' = TRUE
              /\ child_blocked' = FALSE
              /\ pc' = "close_stdin"
              /\ result' = result
              /\ raised' = raised
         [] outcome = "FileNotFoundError" ->
              /\ result' = [result EXCEPT !.error = CliNotFound]
              /\ raised' = outcome
              /\ pc' = "summary"
              /\ UNCHANGED << spawned, stdin_open, child_alive,
                              child_blocked >>
         [] OTHER ->
              /\ result' = [result EXCEPT !.error = ExceptionError]
              /\ raised' = outcome
              /\ pc' = "summary"
              /\ UNCHANGED << spawned, stdin_open, child_alive,
                              child_blocked >>
    /\ UNCHANGED << cfgVars, live_seen, env, exit_status, desc, desc_out,
                    desc_err, whole_stdout, out_pipe, err_pipe,
                    err_written, returncode, expired, timed_out,
                    sig_log, term_sent, grace_expired, readerVars,
                    files_open, stderr_log, outVars >>

\* Mutant of CloseStdin: stdin is left open
CloseStdinLeftOpen ==
    /\ pc = "close_stdin"
    /\ pc' = "start_reader"
    /\ UNCHANGED << cfgVars, live_seen, env, raised, spawned, stdin_open,
                    procVars, returncode, expired, timed_out, sig_log,
                    term_sent, grace_expired, readerVars, files_open,
                    stderr_log, result, outVars >>

\* proc.stdin.close()
CloseStdin ==
    /\ pc = "close_stdin"
    /\ stdin_open' = FALSE
    /\ pc' = "start_reader"
    /\ UNCHANGED << cfgVars, live_seen, env, raised, spawned, procVars,
                    returncode, expired, timed_out, sig_log,
                    term_sent, grace_expired, readerVars, files_open,
                    stderr_log, result, outVars >>

\* open the log files, start the spinner and the reader thread, take start
StartReader ==
    /\ pc = "start_reader"
    /\ files_open' = TRUE
    /\ reader' = "running"
    /\ pc' = "poll"
    /\ UNCHANGED << cfgVars, live_seen, env, raised, spawned, stdin_open,
                    procVars, returncode, expired, timed_out, sig_log,
                    term_sent, grace_expired, stdout_log, stream_log,
                    final_result_event, reader_line,
                    last_tool_name_printed, notified, stderr_log,
                    result, outVars >>

-----------------------------------------------------------------------------
(* The child process and its descendant *)

\* The child and the reader thread are followed while the wrapper runs
Running == pc # "exited"

\* the child writes one line to stdout, at most max lines in all; the write
\* blocks while the pipe is full
ChildWriteUpTo(line, max) ==
    /\ Running
    /\ child_alive
    /\ ~child_blocked
    /\ Len(whole_stdout) < max
    /\ Len(out_pipe) < PipeCap
    /\ out_pipe' = Append(out_pipe, line)
    /\ whole_stdout' = Append(whole_stdout, line)
    /\ UNCHANGED << pc, cfgVars, live_seen, env, raised, spawned, stdin_open,
                    child_alive, child_blocked, exit_status, desc,
                    desc_out, desc_err, err_pipe, err_written,
                    returncode, expired, timed_out, sig_log,
                    term_sent, grace_expired, readerVars, files_open,
                    stderr_log, result, outVars >>

ChildWrite(line) == ChildWriteUpTo(line, MaxLines)

\* the child writes one chunk to stderr, which the pipe has room for
ChildWriteErr(chunk) ==
    /\ Running
    /\ child_alive
    /\ ~child_blocked
    /\ err_written < MaxErr
    /\ Len(err_pipe) < ErrCap
    /\ err_pipe' = Append(err_pipe, chunk)
    /\ err_written' = err_written + 1
    /\ UNCHANGED << pc, cfgVars, live_seen, env, raised, spawned, stdin_open,
                    child_alive, child_blocked, exit_status, desc,
                    desc_out, desc_err, whole_stdout, out_pipe,
                    returncode, expired, timed_out, sig_log,
                    term_sent, grace_expired, readerVars, files_open,
                    stderr_log, result, outVars >>

\* the child writes more to stderr than the pipe has room for: the pipe is
\* filled and the write blocks until the other end is read or the child is
\* killed
ChildBlockErr ==
    /\ Running
    /\ child_alive
    /\ ~child_blocked
    /\ child_blocked' = TRUE
    /\ err_pipe' = IF Len(err_pipe) < ErrCap
                   THEN Append(err_pipe, "E")
                   ELSE err_pipe
    /\ UNCHANGED << pc, cfgVars, live_seen, env, raised, spawned, stdin_open,
                    child_alive, exit_status, desc, desc_out, desc_err,
                    whole_stdout, out_pipe, err_written, returncode,
                    expired, timed_out, sig_log, term_sent, grace_expired,
                    readerVars, files_open, stderr_log, result, outVars >>

\* the child starts a descendant in its process group; the descendant
\* inherits the stdout and stderr pipes unless it redirects them
ChildFork(holds_out, holds_err) ==
    /\ Running
    /\ child_alive
    /\ ~child_blocked
    /\ desc = "none"
    /\ desc' = "alive"
    /\ desc_out' = holds_out
    /\ desc_err' = holds_err
    /\ UNCHANGED << pc, cfgVars, live_seen, env, raised, spawned, stdin_open,
                    child_alive, child_blocked, exit_status,
                    whole_stdout, out_pipe, err_pipe, err_written,
                    returncode, expired, timed_out, sig_log,
                    term_sent, grace_expired, readerVars, files_open,
                    stderr_log, result, outVars >>

\* the child exits on its own
ChildExit(code) ==
    /\ Running
    /\ child_alive
    /\ ~child_blocked
    /\ child_alive' = FALSE
    /\ child_blocked' = FALSE
    /\ exit_status' = code
    /\ UNCHANGED << pc, cfgVars, live_seen, env, raised, spawned, stdin_open,
                    desc, desc_out, desc_err, whole_stdout, out_pipe,
                    err_pipe, err_written, returncode, expired,
                    timed_out, sig_log, term_sent, grace_expired,
                    readerVars, files_open, stderr_log, result,
                    outVars >>

\* the child dies of the SIGTERM it received (a child that ignores or handles
\* the signal never takes this step)
ChildDieTerm ==
    /\ Running
    /\ child_alive
    /\ term_sent
    /\ child_alive' = FALSE
    /\ child_blocked' = FALSE
    /\ exit_status' = KilledByTerm
    /\ UNCHANGED << pc, cfgVars, live_seen, env, raised, spawned, stdin_open,
                    desc, desc_out, desc_err, whole_stdout, out_pipe,
                    err_pipe, err_written, returncode, expired,
                    timed_out, sig_log, term_sent, grace_expired,
                    readerVars, files_open, stderr_log, result,
                    outVars >>

\* the descendant exits, on its own or of a SIGTERM it does not ignore
DescExit ==
    /\ Running
    /\ desc = "alive"
    /\ desc' = "dead"
    /\ desc_out' = FALSE
    /\ desc_err' = FALSE
    /\ UNCHANGED << pc, cfgVars, live_seen, env, raised, spawned, stdin_open,
                    child_alive, child_blocked, exit_status,
                    whole_stdout, out_pipe, err_pipe, err_written,
                    returncode, expired, timed_out, sig_log,
                    term_sent, grace_expired, readerVars, files_open,
                    stderr_log, result, outVars >>

\* wall-clock time passes the deadline of the poll loop
Tick ==
    /\ pc = "poll"
    /\ ~expired
    /\ expired' = TRUE
    /\ UNCHANGED << pc, cfgVars, live_seen, env, raised, spawned, stdin_open,
                    procVars, returncode, timed_out, sig_log,
                    term_sent, grace_expired, readerVars, files_open,
                    stderr_log, result, outVars >>

-----------------------------------------------------------------------------
(* read_stdout: the drain thread *)

\* "for line in proc.stdout": the thread takes the next line and writes it
\* to the logs.  A write to a log file the main thread has closed raises
\* ValueError, which ends the thread.  In streaming mode the line is then
\* parsed, in DrainInterpret.
DrainRead ==
    /\ Running
    /\ reader = "running"
    /\ reader_line = None
    /\ out_pipe # << >>
    /\ LET line == Head(out_pipe)
       IN  /\ out_pipe' = Tail(out_pipe)
           /\ IF ~files_open
              THEN /\ reader' = "crashed"
                   /\ UNCHANGED << stdout_log, stream_log, reader_line >>
              ELSE /\ reader' = reader
                   /\ stdout_log' = Append(stdout_log, line)
                   /\ stream_log' = IF stream_progress
                                    THEN Append(stream_log, line)
                                    ELSE stream_log
                   /\ reader_line' = IF stream_progress THEN line ELSE None
    /\ UNCHANGED << pc, cfgVars, live_seen, env, raised, spawned, stdin_open,
                    child_alive, child_blocked, exit_status, desc, desc_out,
                    desc_err, whole_stdout, err_pipe, err_written,
                    returncode, expired, timed_out, sig_log, term_sent,
                    grace_expired, final_result_event,
                    last_tool_name_printed, notified, files_open,
                    stderr_log, result, outVars >>

\* "Parse stream events for progress display": blank lines and lines that
\* are not JSON are skipped; event.get on a decoded value that is not a
\* dict, or on a "message" that is not one, raises AttributeError, which
\* ends the thread; the tool_use blocks of an assistant event are announced;
\* a result event is kept in final_result_event.
DrainInterpret ==
    /\ Running
    /\ reader = "running"
    /\ reader_line # None
    /\ reader_line' = None
    /\ LET line == reader_line
           after == NotifyBlocks(ToolNames(line), last_tool_name_printed,
                                 notified)
       IN  IF IsBlank(line) \/ ~JsonValid(line)
           THEN UNCHANGED << reader, final_result_event,
                             last_tool_name_printed, notified >>
           ELSE IF ~IsDict(line) \/ ContentRaises(line)
           THEN /\ reader' = "crashed"
                /\ UNCHANGED << final_result_event, last_tool_name_printed,
                                notified >>
           ELSE /\ reader' = reader
                /\ last_tool_name_printed' =
                      IF GetType(line) = "assistant" THEN after[1]
                      ELSE last_tool_name_printed
                /\ notified' =
                      IF GetType(line) = "assistant" THEN after[2]
                      ELSE notified
                /\ final_result_event' =
                      IF GetType(line) = "result" THEN line
                      ELSE final_result_event
    /\ UNCHANGED << pc, cfgVars, live_seen, env, raised, spawned, stdin_open,
                    procVars, returncode, expired, timed_out, sig_log,
                    term_sent, grace_expired, stdout_log, stream_log,
                    files_open, stderr_log, result, outVars >>

\* end of stream: the for loop ends and the thread returns
DrainEOF ==
    /\ Running
    /\ reader = "running"
    /\ reader_line = None
    /\ out_pipe = << >>
    /\ StdoutClosed
    /\ reader' = "done"
    /\ UNCHANGED << pc, cfgVars, live_seen, env, raised, spawned, stdin_open,
                    procVars, returncode, expired, timed_out, sig_log,
                    term_sent, grace_expired, stdout_log, stream_log,
                    final_result_event, reader_line,
                    last_tool_name_printed, notified, files_open,
                    stderr_log, result, outVars >>

-----------------------------------------------------------------------------
(* The poll loop and _kill_process_group *)

\* while proc.poll() is None: ... ends when poll() reaps the exited child
PollExited ==
    /\ pc = "poll"
    /\ ~child_alive
    /\ returncode' = exit_status
    /\ pc' = "stderr"
    /\ UNCHANGED << cfgVars, live_seen, env, raised, spawned, stdin_open,
                    procVars, expired, timed_out, sig_log, term_sent,
                    grace_expired, readerVars, files_open, stderr_log,
                    result, outVars >>

\* the child is still running and (time.time() - start) > timeout
PollTimeout ==
    /\ pc = "poll"
    /\ child_alive
    /\ expired
    /\ timed_out' = TRUE
    /\ pc' = "kill_term"
    /\ UNCHANGED << cfgVars, live_seen, env, raised, spawned, stdin_open,
                    procVars, returncode, expired, sig_log, term_sent,
                    grace_expired, readerVars, files_open, stderr_log,
                    result, outVars >>

Signal(sig, to, sent) == [ sig |-> sig, to |-> to, sent |-> sent ]

\* result["error"] = f"Timeout after {timeout}s"; break
WithTimeoutError(r) == [r EXCEPT !.error = TimeoutError]

\* os.killpg(os.getpgid(proc.pid), signal.SIGTERM): delivers the signal to the
\* group, or raises OSError and control passes to "except Exception"
KillTerm(ok) ==
    /\ pc = "kill_term"
    /\ sig_log' = Append(sig_log, Signal(SIGTERM, "group", ok))
    /\ term_sent' = ok
    /\ grace_expired' = grace_expired
    /\ pc' = IF ok THEN "kill_wait" ELSE "kill_fallback"
    /\ UNCHANGED << cfgVars, live_seen, env, raised, spawned, stdin_open,
                    procVars, returncode, expired, timed_out,
                    readerVars, files_open, stderr_log, result,
                    outVars >>

\* proc.wait(timeout=grace_seconds) returns: the child has exited
KillWaitReturn ==
    /\ pc = "kill_wait"
    /\ ~child_alive
    /\ returncode' = exit_status
    /\ result' = WithTimeoutError(result)
    /\ pc' = "stderr"
    /\ UNCHANGED << cfgVars, live_seen, env, raised, spawned, stdin_open,
                    procVars, expired, timed_out, sig_log, term_sent,
                    grace_expired, readerVars, files_open, stderr_log,
                    outVars >>

\* proc.wait(timeout=grace_seconds) raises TimeoutExpired: the child is
\* still running when the grace period ends
KillWaitExpired ==
    /\ pc = "kill_wait"
    /\ child_alive
    /\ grace_expired' = TRUE
    /\ pc' = "kill_kill"
    /\ UNCHANGED << cfgVars, live_seen, env, raised, spawned, stdin_open,
                    procVars, returncode, expired, timed_out, sig_log,
                    term_sent, readerVars, files_open, stderr_log,
                    result, outVars >>

\* except TimeoutExpired: os.killpg(..., SIGKILL); proc.wait(timeout=2).
\* A delivered SIGKILL ends every process of the group.  If killpg raises,
\* the exception leaves _kill_process_group (it is raised inside a handler)
\* and is caught by "except Exception" of run_subagent.
KillKill(ok) ==
    /\ pc = "kill_kill"
    /\ sig_log' = Append(sig_log, Signal(SIGKILL, "group", ok))
    /\ IF ok
       THEN /\ child_alive' = FALSE
            /\ child_blocked' = FALSE
            /\ exit_status' = IF child_alive THEN KilledByKill ELSE exit_status
            /\ desc' = IF desc = "alive" THEN "dead" ELSE desc
            /\ desc_out' = FALSE
            /\ desc_err' = FALSE
            /\ returncode' = exit_status'
            /\ result' = WithTimeoutError(result)
            /\ raised' = raised
            /\ pc' = "stderr"
       ELSE /\ result' = [result EXCEPT !.error = ExceptionError]
            /\ raised' = "OSError"
            /\ pc' = "summary"
            /\ UNCHANGED << child_alive, child_blocked, exit_status, desc,
                            desc_out, desc_err, returncode >>
    /\ UNCHANGED << cfgVars, live_seen, env, spawned, stdin_open,
                    whole_stdout, out_pipe, err_pipe, err_written,
                    expired, timed_out, term_sent, grace_expired,
                    readerVars, files_open, stderr_log, outVars >>

\* except Exception: proc.kill().  Popen.kill polls first and sends SIGKILL to
\* the child's pid only if the child has not been reaped; an error of the
\* send is swallowed.  Nothing waits for the child afterwards.
KillFallback(ok) ==
    /\ pc = "kill_fallback"
    /\ IF ~child_alive
       THEN /\ returncode' = exit_status
            /\ UNCHANGED << sig_log, child_alive, child_blocked,
                            exit_status >>
       ELSE /\ sig_log' = Append(sig_log, Signal(SIGKILL, "child", ok))
            /\ child_alive' = ~ok
            /\ child_blocked' = (child_blocked /\ ~ok)
            /\ exit_status' = IF ok THEN KilledByKill ELSE exit_status
            /\ returncode' = returncode
    /\ result' = WithTimeoutError(result)
    /\ pc' = "stderr"
    /\ UNCHANGED << cfgVars, live_seen, env, raised, spawned, stdin_open,
                    desc, desc_out, desc_err, whole_stdout, out_pipe,
                    err_pipe, err_written, expired, timed_out,
                    term_sent, grace_expired, readerVars, files_open,
                    stderr_log, outVars >>

-----------------------------------------------------------------------------
(* Capture of stderr, cleanup, reconciliation *)

\* proc.stderr.read(): blocks until end-of-file, then decodes the bytes
\* (UnicodeDecodeError on bytes that are not UTF-8, caught by "except
\* Exception" of run_subagent) and writes the text to the stderr log
ReadStderr ==
    /\ pc = "stderr"
    /\ StderrClosed
    /\ err_pipe' = << >>
    /\ IF \E i \in 1..Len(err_pipe) : err_pipe[i] = "BAD"
       THEN /\ result' = [result EXCEPT !.error = ExceptionError]
            /\ raised' = "UnicodeDecodeError"
            /\ stderr_log' = stderr_log
            /\ pc' = "summary"
       ELSE /\ stderr_log' = err_pipe
            /\ result' = result
            /\ raised' = raised
            /\ pc' = "cleanup"
    /\ UNCHANGED << cfgVars, live_seen, env, spawned, stdin_open,
                    child_alive, child_blocked, exit_status, desc,
                    desc_out, desc_err, whole_stdout, out_pipe,
                    err_written, returncode, expired, timed_out,
                    sig_log, term_sent, grace_expired, readerVars,
                    files_open, outVars >>

\* stop_spinner.set(); reader.join(timeout=2); spinner_thread.join(timeout=1);
\* the three log files are closed; if result["error"]: return result.
\* The join returns when the reader has ended or after two seconds, so the
\* step is taken whatever the reader's state.
Cleanup ==
    /\ pc = "cleanup"
    /\ files_open' = FALSE
    /\ pc' = IF result.error # None THEN "returned" ELSE "reconcile"
    /\ UNCHANGED << cfgVars, live_seen, env, raised, spawned, stdin_open,
                    procVars, returncode, expired, timed_out, sig_log,
                    term_sent, grace_expired, readerVars, stderr_log,
                    result, outVars >>

\* Mutant of OnExitZero: no re-scan of the stream log
OnExitZeroNoRescan(r, stream, live, olog, slog) ==
    IF stream
    THEN IF live # None
         THEN [r EXCEPT !.success = TRUE,
                        !.result = GetResult(live),
                        !.session_id = GetSession(live)]
         ELSE [r EXCEPT !.success = TRUE,
                        !.result = NoResultPlaceholder]
    ELSE IF WholeJsonValid(olog)
         THEN IF IsDict(WholeJson(olog))
              THEN [r EXCEPT !.success = TRUE,
                             !.result = GetResult(WholeJson(olog)),
                             !.session_id = GetSession(WholeJson(olog))]
              ELSE [r EXCEPT !.success = TRUE, !.error = ExceptionError]
         ELSE [r EXCEPT !.success = TRUE, !.result = olog]

\* "Parse result", return code 0: success, with the result taken from the
\* live marker, else from the re-scan of the stream log, else a placeholder
\* (streaming), or from the stdout log parsed as JSON, else its raw text
OnExitZero(r, stream, live, olog, slog) ==
    IF stream
    THEN IF live # None
         THEN [r EXCEPT !.success = TRUE,
                        !.result = GetResult(live),
                        !.session_id = GetSession(live)]
         ELSE IF LastResult(slog) # None
              THEN [r EXCEPT !.success = TRUE,
                             !.result = GetResult(LastResult(slog)),
                             !.session_id = GetSession(LastResult(slog))]
              ELSE [r EXCEPT !.success = TRUE,
                             !.result = NoResultPlaceholder]
    ELSE IF WholeJsonValid(olog)
         THEN IF IsDict(WholeJson(olog))
              THEN [r EXCEPT !.success = TRUE,
                             !.result = GetResult(WholeJson(olog)),
                             !.session_id = GetSession(WholeJson(olog))]
              ELSE [r EXCEPT !.success = TRUE, !.error = ExceptionError]
         ELSE [r EXCEPT !.success = TRUE, !.result = olog]

\* output.get raises AttributeError when the decoded stdout is not a dict;
\* result["success"] = True has been executed by then
ParseRaises(rc, stream, olog) ==
    /\ rc = "0"
    /\ ~stream
    /\ WholeJsonValid(olog)
    /\ ~IsDict(WholeJson(olog))

\* Mutant of OnExitNonZero: no fallback to the exit code
OnExitNonZeroStderrOnly(r, elog) ==
    [r EXCEPT !.error = IF elog # << >> THEN StderrError ELSE None]

\* "Parse result", any other return code: the error is the stripped stderr
\* log, or the exit code when that is empty
OnExitNonZero(r, elog) ==
    [r EXCEPT !.error = IF elog # << >> THEN StderrError ELSE ExitCodeError]

\* Mutant of Reconciled: a result event captured live is trusted before
\* the return code is looked at
ReconciledLiveFirst(r, rc, stream, live, olog, slog, elog) ==
    IF rc = "0" \/ (stream /\ live # None)
    THEN OnExitZero(r, stream, live, olog, slog)
    ELSE OnExitNonZero(r, elog)

\* Mutant of Reconciled: return code 0 without an obtainable result event
\* is reported as a failure
ReconciledNeedsResult(r, rc, stream, live, olog, slog, elog) ==
    IF rc = "0" /\ (stream => (live # None \/ LastResult(slog) # None))
    THEN OnExitZero(r, stream, live, olog, slog)
    ELSE OnExitNonZero(r, elog)

\* if proc.returncode == 0: ... else: ...
Reconciled(r, rc, stream, live, olog, slog, elog) ==
    IF rc = "0"
    THEN OnExitZero(r, stream, live, olog, slog)
    ELSE OnExitNonZero(r, elog)

Reconcile ==
    /\ pc = "reconcile"
    /\ result' = Reconciled(result, returncode, stream_progress,
                            final_result_event, stdout_log, stream_log,
                            stderr_log)
    /\ raised' = IF ParseRaises(returncode, stream_progress, stdout_log)
                 THEN "AttributeError"
                 ELSE raised
    /\ live_seen' = IF returncode = "0" /\ stream_progress
                    THEN final_result_event
                    ELSE live_seen
    /\ pc' = "summary"
    /\ UNCHANGED << cfgVars, env, spawned, stdin_open, procVars,
                    returncode, expired, timed_out, sig_log,
                    term_sent, grace_expired, readerVars, files_open,
                    stderr_log, outVars >>

\* "Print final summary": the statements after the try/except/finally
Summary ==
    /\ pc = "summary"
    /\ summary_printed' = TRUE
    /\ pc' = "returned"
    /\ UNCHANGED << cfgVars, live_seen, env, raised, spawned, stdin_open,
                    procVars, returncode, expired, timed_out, sig_log,
                    term_sent, grace_expired, readerVars, files_open,
                    stderr_log, result, json_printed, exit_code >>

\* print(json.dumps({success, result, error})); sys.exit(0 if success else 1)
ExitCodeOf(r) == IF r.success THEN "0" ELSE "1"

MainPrintJson ==
    /\ pc = "returned"
    /\ json_printed' = TRUE
    /\ exit_code' = ExitCodeOf(result)
    /\ pc' = "exited"
    /\ UNCHANGED << cfgVars, live_seen, env, raised, spawned, stdin_open,
                    procVars, returncode, expired, timed_out, sig_log,
                    term_sent, grace_expired, readerVars, files_open,
                    stderr_log, result, summary_printed >>

-----------------------------------------------------------------------------
Supervisor ==
    \/ MainParseArgs
    \/ BuildEnv
    \/ MainTraceback
    \/ \E outcome \in {"ok", "FileNotFoundError", "OSError"} : Popen(outcome)
    \/ CloseStdin
    \/ StartReader
    \/ PollExited
    \/ PollTimeout
    \/ \E ok \in BOOLEAN : KillTerm(ok)
    \/ KillWaitReturn
    \/ KillWaitExpired
    \/ \E ok \in BOOLEAN : KillKill(ok)
    \/ \E ok \in BOOLEAN : KillFallback(ok)
    \/ ReadStderr
    \/ Cleanup
    \/ Reconcile
    \/ Summary
    \/ MainPrintJson

Drain ==
    \/ DrainRead
    \/ DrainInterpret
    \/ DrainEOF

Child ==
    \/ \E line \in LineKinds : ChildWrite(line)
    \/ \E chunk \in ErrKinds : ChildWriteErr(chunk)
    \/ ChildBlockErr
    \/ \E holds_out, holds_err \in BOOLEAN : ChildFork(holds_out, holds_err)
    \/ \E code \in ExitCodes : ChildExit(code)
    \/ ChildDieTerm
    \/ DescExit

Next ==
    \/ Supervisor
    \/ Drain
    \/ Child
    \/ Tick

Spec == Init /\ [][Next]_vars

\* The drain of a streaming run followed on its own, on streams with
\* assistant events: the state StartReader leaves, the child writing and
\* exiting, and the reader thread, while the main thread is in its poll loop
InitDrain ==
    /\ pc = "poll"
    /\ task_given = TRUE
    /\ stream_progress = TRUE
    /\ environ = << "", "key" >>
    /\ env = "key"
    /\ spawned = TRUE
    /\ stdin_open = FALSE
    /\ child_alive = TRUE
    /\ child_blocked = FALSE
    /\ exit_status = None
    /\ returncode = None
    /\ desc = "none"
    /\ desc_out = FALSE
    /\ desc_err = FALSE
    /\ whole_stdout = << >>
    /\ out_pipe = << >>
    /\ err_pipe = << >>
    /\ err_written = 0
    /\ expired = FALSE
    /\ timed_out = FALSE
    /\ sig_log = << >>
    /\ term_sent = FALSE
    /\ grace_expired = FALSE
    /\ raised = None
    /\ reader = "running"
    /\ files_open = TRUE
    /\ stdout_log = << >>
    /\ stream_log = << >>
    /\ stderr_log = << >>
    /\ final_result_event = None
    /\ reader_line = None
    /\ last_tool_name_printed = None
    /\ notified = << >>
    /\ live_seen = Unread
    /\ result = InitResult
    /\ summary_printed = FALSE
    /\ json_printed = FALSE
    /\ exit_code = None

NextDrain ==
    \/ \E line \in StreamKinds : ChildWriteUpTo(line, DrainMaxLines)
    \/ \E code \in ExitCodes : ChildExit(code)
    \/ DrainRead
    \/ DrainInterpret
    \/ DrainEOF

DrainSpec == InitDrain /\ [][NextDrain]_vars

\* Scheduling: the main thread and the reader thread keep running, and time
\* passes.  Nothing is assumed of the child or of its descendant: they may
\* stop writing, never exit, and ignore SIGTERM.
FairSpec ==
    /\ Spec
    /\ WF_vars(Supervisor)
    /\ WF_vars(Drain)
    /\ WF_vars(Tick)

-----------------------------------------------------------------------------
(* Properties *)

\* run_subagent has returned its result dict to main
Returned == pc = "returned" \/ (pc = "exited" /\ json_printed)

\* C1: whenever run_subagent has returned and the child ended with a status
\* other than zero, the outcome has success = False, in both modes and
\* whatever was captured from stdout.
C1_NonZeroExitFails ==
    (Returned /\ exit_status \notin {None, "0"}) => ~result.success

\* C1 witness: a streaming run returned after the child wrote a complete
\* result event, which the drain captured, and exited with status 1.
C1_Witness ==
    /\ Returned
    /\ stream_progress
    /\ exit_status = "1"
    /\ ~timed_out
    /\ final_result_event = "R1"
    /\ ~result.success

\* every signal _kill_process_group tried to send was delivered
AllDelivered == \A i \in 1..Len(sig_log) : sig_log[i].sent

\* C2 (as claimed, for the runs in which every signal was delivered):
\* whenever the poll loop found the child still running after the timeout,
\* the returned outcome has success = False and the error
\* "Timeout after <timeout>s".
C2_TimeoutAlwaysReported ==
    (Returned /\ timed_out /\ AllDelivered) =>
        (~result.success /\ result.error = TimeoutError)

\* C3 (as claimed, for the runs in which no exception was raised): in every
\* returned outcome, success is true exactly when the child exited with
\* status zero and a terminal result was obtainable: captured live, recovered
\* from the stream log, or (non-streaming) the stdout parsed or accepted raw.
Obtainable ==
    \/ ~stream_progress
    \/ final_result_event # None
    \/ LastResult(stream_log) # None

C3_SuccessIffExitZeroAndResult ==
    (Returned /\ raised = None) =>
        (result.success <=> (exit_status = "0" /\ Obtainable))

\* C3 (amended): in every returned outcome, success is true exactly when the
\* child exited with status zero, the poll loop did not take its timeout
\* branch and the capture of stderr raised no exception; whether a terminal
\* result was obtainable plays no part.
C3_SuccessIffExitZero ==
    Returned =>
        (result.success <=>
            /\ exit_status = "0"
            /\ ~timed_out
            /\ raised # "UnicodeDecodeError")

\* C3 witness: a streaming run returned success for a child that exited with
\* status zero although no result event was captured live or is in the log.
C3_Witness ==
    /\ Returned
    /\ stream_progress
    /\ exit_status = "0"
    /\ final_result_event = None
    /\ LastResult(stream_log) = None
    /\ result.success
    /\ result.result = NoResultPlaceholder

\* C4: every returned outcome is exactly one of: success = True, or
\* success = False with an error that is not None.
C4_SuccessXorError ==
    Returned =>
        LET ok == result.success = TRUE
            failed == result.success = FALSE /\ result.error # None
        IN  (ok \/ failed) /\ ~(ok /\ failed)

\* C4 witness: a run returned for a child that exited with a non-zero status
\* and an empty stderr, the case where the error is built from the exit code.
C4_Witness ==
    /\ Returned
    /\ ~timed_out
    /\ exit_status = "1"
    /\ stderr_log = << >>
    /\ result.error = ExitCodeError

\* C5 (as claimed): every invocation whose arguments parse ends having
\* printed the JSON line, with exit code 0 if success and 1 otherwise.
C5_AlwaysJsonLine ==
    (pc = "exited" /\ task_given) =>
        (json_printed /\ exit_code = ExitCodeOf(result))

\* C6: when neither ANTHROPIC_AUTH_TOKEN nor ZAI_API_KEY is set, no child is
\* ever spawned, and once run_subagent has called _build_env the run has
\* failed with the ValueError it raises.
NeitherSet == environ[1] = Unset /\ environ[2] = Unset

C6_NoSpawnWithoutCredentials ==
    NeitherSet =>
        /\ ~spawned
        /\ (task_given /\ pc \notin {"main", "build_env"}) =>
              (raised = "ValueError" /\ pc \in {"raised", "exited"})

\* C6 witness: _build_env has raised in a run started with neither variable.
C6_Witness == NeitherSet /\ task_given /\ pc = "raised"

\* C7 (as claimed, for the runs in which every signal was delivered): under
\* fair scheduling every run that spawned a child eventually returns an
\* outcome, whatever the child and its descendant do.
C7_EveryRunReturns == spawned ~> (Returned \/ ~AllDelivered)

\* C8 (as claimed): every SIGKILL that _kill_process_group sends is addressed
\* to the process group and follows a SIGTERM delivered to the group and a
\* grace period that ended with the child still running.
C8_GracefulThenForced ==
    \A i \in 1..Len(sig_log) :
        sig_log[i].sig = SIGKILL =>
            /\ sig_log[i].to = "group"
            /\ grace_expired
            /\ \E j \in 1..(i - 1) :
                  /\ sig_log[j].sig = SIGTERM
                  /\ sig_log[j].to = "group"
                  /\ sig_log[j].sent

\* C9 (as claimed, for the runs in which every signal was delivered): when a
\* timed-out run returns, neither the child nor its descendant is still
\* running.
C9_GroupDeadAfterTimeout ==
    (Returned /\ timed_out /\ AllDelivered) =>
        (~child_alive /\ desc # "alive")

\* C10 (as claimed): in non-streaming mode, when the child exited with status
\* zero without a timeout and what it wrote to stdout is not valid JSON, the
\* returned outcome has success = True and the logged stdout text as result.
C10_RawStdoutAccepted ==
    ( /\ Returned
      /\ ~stream_progress
      /\ exit_status = "0"
      /\ ~timed_out
      /\ ~WholeJsonValid(whole_stdout) ) =>
        (result.success /\ result.result = stdout_log)

-----------------------------------------------------------------------------
\* The outcome carries the result and the session id of the event ev
OutcomeOf(ev) ==
    /\ result.success
    /\ result.result = GetResult(ev)
    /\ result.session_id = GetSession(ev)

\* C11, as stated: in streaming mode, whenever the drain captured no result
\* event but the stream log holds a complete result line, the run returns
\* success with the result and the session id of that line.  (Violated: a
\* child that exits non-zero or is killed on timeout is reported as a
\* failure and the log is not re-scanned.)
C11_RescanRecovers ==
    (Returned /\ stream_progress /\ raised = None
       /\ final_result_event = None /\ LastResult(stream_log) # None)
    => OutcomeOf(LastResult(stream_log))

\* C11, amended: in streaming mode, when "Parse result" is reached with
\* return code 0 and reads an empty marker while the stream log holds a
\* complete result line, the run returns success with the result and the
\* session id of the last such line.
C11_RescanRecoversOnExitZero ==
    (Returned /\ stream_progress /\ live_seen = None
       /\ LastResult(stream_log) # None)
    => OutcomeOf(LastResult(stream_log))

C11_Witness ==
    /\ Returned
    /\ stream_progress
    /\ live_seen = None
    /\ LastResult(stream_log) = "R1"
    /\ result.result = << "r1" >>

-----------------------------------------------------------------------------
\* The lines of the stream log read_stdout has parsed: all but the one it
\* has logged and not yet parsed
Interpreted ==
    IF reader_line # None
    THEN SubSeq(stream_log, 1, Len(stream_log) - 1)
    ELSE stream_log

\* The tool names of the tool_use blocks of a sequence of lines, in order
RECURSIVE AllToolNames(_)
AllToolNames(log) ==
    IF log = << >> THEN << >>
    ELSE ToolNames(Head(log)) \o AllToolNames(Tail(log))

\* A sequence with every run of equal consecutive elements reduced to one
RECURSIVE Collapse(_)
Collapse(names) ==
    IF Len(names) <= 1 THEN names
    ELSE IF Head(names) = Head(Tail(names))
         THEN Collapse(Tail(names))
         ELSE << Head(names) >> \o Collapse(Tail(names))

\* C12: the tool-use notifications are the tool names of the parsed events
\* (the placeholder "tool" for a block without a name) with consecutive
\* repetitions announced once; events without a tool invocation in between
\* do not reset the marker, which is the name announced last.
C12_NotifiedOncePerChange ==
    /\ notified = Collapse(AllToolNames(Interpreted))
    /\ last_tool_name_printed =
          IF notified = << >> THEN None ELSE notified[Len(notified)]

\* "Read", an event without a tool, "Read" again: one notification
C12_Witness ==
    /\ Interpreted = << "TA", "AST", "TA" >>
    /\ notified = << "Read" >>

-----------------------------------------------------------------------------
\* read_stdout ended with an exception raised while it parsed a line: every
\* line it took from the pipe is in the log
DrainAborted ==
    /\ reader = "crashed"
    /\ Len(stdout_log) + Len(out_pipe) = Len(whole_stdout)

\* C13, as stated: in streaming mode, after exit status 0 without timeout,
\* when the child's stdout held a result event, the outcome carries the
\* result and the session id of the last result event the child wrote.
\* (Violated: the drain ends at a line whose JSON value is not an object,
\* and the result events after it are neither captured nor logged.)
C13_LastResultWins ==
    (Returned /\ stream_progress /\ exit_status = "0" /\ ~timed_out
       /\ raised = None /\ DrainAborted
       /\ LastResult(whole_stdout) # None)
    => OutcomeOf(LastResult(whole_stdout))

-----------------------------------------------------------------------------
\* A read of a pipe of the child may be in progress: the reader thread is
\* in its loop over proc.stdout, or the main thread is in proc.stderr.read()
ReadInProgress == reader = "running" \/ pc = "stderr"

\* C14: the child's stdin is closed before the drain is started and before
\* any read of its stdout or stderr: no read is in progress while it is open.
C14_StdinClosedBeforeReads ==
    /\ ReadInProgress => ~stdin_open
    /\ stdin_open => (reader = "idle" /\ pc = "close_stdin")

\* The reader thread is about to take a line, stdin having been closed
C14_Witness ==
    /\ spawned
    /\ ~stdin_open
    /\ reader = "running"
    /\ out_pipe # << >>

-----------------------------------------------------------------------------
\* C15, as stated: in streaming mode, whatever a line contains, the drain
\* keeps running until the end of the stream.  (Violated: while the logs are
\* open the thread ends with AttributeError on a line whose JSON value is
\* not an object.)
C15_DrainSurvivesAnyLine ==
    (stream_progress /\ files_open) => reader # "crashed"

-----------------------------------------------------------------------------
\* C16, as stated: the log files are closed and the marker is read only
\* when the drain has terminated.  (Violated: reader.join(timeout=2) returns
\* with the thread still running, here blocked in a read of the pipe that a
\* descendant of the child holds open.)
C16_DrainEndedBeforeCleanup ==
    (pc \in {"reconcile", "summary", "returned"} /\ reader # "idle"
       /\ ~files_open /\ ~child_alive /\ ~StdoutClosed)
    => reader \in {"done", "crashed"}

-----------------------------------------------------------------------------
\* C17, as stated: the child is never blocked in a write to a full stdout
\* or stderr pipe while the supervisor waits for it to exit before reading
\* that pipe.  (Violated for stderr, which is read after the poll loop.)
C17_NoWriterBlockedWhileWaiting ==
    ~(child_blocked /\ pc \in {"poll", "kill_wait"})

-----------------------------------------------------------------------------
\* C18, as stated: whenever run_subagent returns after the log files were
\* opened, they are closed.  (Violated on the exception paths.)
C18_LogsClosedOnReturn ==
    Returned => ~files_open

-----------------------------------------------------------------------------
\* C19, as stated: whenever run_subagent returns, the final summary (and in
\* streaming mode the pointer to the logs, written by the same statements)
\* has been printed.  (Violated by the return of the timeout path, every
\* signal having been delivered.)
C19_SummaryOnEveryReturn ==
    (Returned /\ AllDelivered) => summary_printed

-----------------------------------------------------------------------------
\* C20, as stated: in every returned outcome success = True implies that
\* error is None.  (Violated in non-streaming mode when the stdout is a
\* JSON value that is not an object.)
C20_SuccessImpliesNoError ==
    Returned => (result.success => result.error = None)

=============================================================================
